---- MODULE Spec2Model ----
(***************************************************************************)
(* Model of macsetup's setup executor (services/setup.py) and of the       *)
(* `setup` command that drives it (cli.py: cmd_setup).                     *)
(*                                                                         *)
(* One behaviour is a session: a sequence of invocations of               *)
(* `macsetup setup` against the same configuration directory and the same  *)
(* machine.  The run-state file (.state.json) and the set of installed     *)
(* packages survive from one invocation to the next; everything else is    *)
(* rebuilt by each invocation.  A session is either one invocation of any  *)
(* profile with at most one category switched off or unavailable, or up to *)
(* MaxRuns invocations (any mix of --force and --resume) of a profile of   *)
(* the kinds RepeatKinds with no category switched off.  The liveness      *)
(* specification FairSpec covers the sessions of the smaller profiles.     *)
(* SwitchSpec is about sessions whose invocations name one or the other of *)
(* two profiles of the same configuration.                                 *)
(*                                                                         *)
(* ResolverSpec is about the profile a command works on: the profile       *)
(* SetupService takes from the configuration and the one PreviewService    *)
(* resolves (services/preview.py).  StorageSpec is about the storage        *)
(* location: get_config_dir and main (cli.py) and the migrations of        *)
(* InitService (services/init.py), one step per file operation.           *)
(* SyncedSpec is StorageSpec with iCloud Drive syncing the remote          *)
(* directory underneath the program.  Each specification keeps the         *)
(* variables of the other groups at rest.                                  *)
(***************************************************************************)
EXTENDS Integers, Sequences, FiniteSets, TLC

\* ------------------------------------------------------------------ bounds
MaxRuns  == 2      \* invocations of the setup command in a repeated session
MaxItems == 3      \* items in the profile, all lists together

\* ------------------------------------------------------- program constants
None == "None"                       \* a missing error text

NoState == [status |-> "absent"]    \* no SetupState / no .state.json

NoExit == -1                        \* cmd_setup has not returned yet

\* Category order of SetupService.run: _install_homebrew (taps, formulas,
\* casks), _install_mas_apps, _setup_dotfiles, _apply_preferences.  The
\* names are the item-id prefixes and the FailedItem types of the code.
CatOrderCasksFirst == <<"cask", "formula", "tap", "mas", "dotfile", "preference">>

CatOrder == <<"tap", "formula", "cask", "mas", "dotfile", "preference">>

NumCats == Len(CatOrder)
Cats    == 1..NumCats

\* the item kinds of a profile: homebrew.taps, homebrew.formulas,
\* homebrew.casks, applications.mas, dotfiles, preferences
Kinds == {"tap", "formula", "cask", "mas", "dotfile", "preference"}

\* kinds whose adapter answers an is-installed query
QueriedKinds == {"tap", "formula", "cask", "mas"}

\* kinds of the profiles that are set up repeatedly: one kind with an
\* is-installed query, the kind whose adapter never raises, and one kind
\* without a query whose adapter can raise
RepeatKinds == {"formula", "dotfile", "preference"}

\* f"{kind}:{key}"
ItemId(kind, k) == <<kind, k>>

\* AdapterResult.error of a failed call: a message, or None
AdapterErrors == {"E1"}

VARIABLES
    profile,        \* the active profile: kind -> declared list of keys
    installed,      \* machine: item ids brew / mas report as installed
    file,           \* .state.json: NoState (absent) or the saved SetupState
    env,            \* the session: tool availability and --no-* options
    todo,           \* runs of the executor the session has still to start
    pc,             \* "idle" | "loop" | "call" | "final"
    svc,            \* SetupService fields and adapter availability
    interrupted,    \* SetupService._interrupted
    state,          \* SetupService._state
    loaded,         \* what _load_state returned to this run
    result,         \* the SetupResult being built / returned
    pos,            \* <<category, index>> of the loop the run is in
    calls,          \* <<category, index>> of each install/apply call, in order
    skipped,        \* positions short-circuited by the `continue` of a loop
    last_call,      \* outcome of the latest install/apply adapter call
    exit_code,      \* latest return value of cmd_setup, NoExit during a run
    prev,           \* summary of the previous invocation
    \* -- profile resolution (services/preview.py, SetupService._get_profile)
    config,         \* Configuration.profiles: profile name -> Profile
    setup_out,      \* the profile SetupService.run works on, as item lists
    preview_out,    \* what PreviewService.preview lists
    \* -- storage location (cli.py: get_config_dir, main; services/init.py)
    local,          \* DEFAULT_CONFIG_DIR: config.yaml and dotfiles/
    icloud,         \* iCloud Drive and its macsetup directory
    pointer,        \* the pointer file DEFAULT_CONFIG_DIR/config-dir
    environ,        \* os.environ["MACSETUP_CONFIG_DIR"]
    main_out,       \* what the latest main() resolved and did
    ini,            \* the InitService call in progress
    init_result     \* the dict the latest InitService call returned

setupVars == <<profile, installed, file, env, todo, pc, svc, interrupted, state, loaded,
               result, pos, calls, skipped, last_call, exit_code, prev>>

resolverVars == <<config, setup_out, preview_out>>

storageVars == <<local, icloud, pointer, environ, main_out, ini, init_result>>

vars == <<setupVars, resolverVars, storageVars>>

\* the variables the setup executor never touches
outsideSetup == <<resolverVars, storageVars>>

\* ---------------------------------------------------------------- helpers
Range(s) == {s[i] : i \in DOMAIN s}

\* The declared list of a category with n items.  The keys of a list are
\* distinct and are named by their place in the list.
KeyList(n) == [i \in 1..n |-> i]

\* every profile over the kinds K with at most n items in all
RECURSIVE ProfilesOver(_, _)
ProfilesOver(K, n) ==
    IF K = {} THEN {<<>>}
    ELSE LET k == CHOOSE x \in K : TRUE
         IN  UNION {{[x \in K |-> IF x = k THEN KeyList(m) ELSE rest[x]] :
                        rest \in ProfilesOver(K \ {k}, n - m)} :
                    m \in 0..n}

\* the lists of a profile: the six work categories and applications.manual
ProfileKeys == Kinds \cup {"manual"}

Profiles == ProfilesOver(ProfileKeys, MaxItems)

\* the profiles of a session of r runs: two items less for each run after
\* the second
RepeatProfiles(r) ==
    {[k \in ProfileKeys |-> IF k \in RepeatKinds THEN p[k] ELSE <<>>] :
        p \in ProfilesOver(RepeatKinds, MaxItems + 4 - 2 * r)}

\* tool availability and --no-dotfiles / --no-preferences: every category
\* on, or one of the four switches off
Envs == {e \in [brew : BOOLEAN, mas : BOOLEAN,
                skip_dotfiles : BOOLEAN, skip_preferences : BOOLEAN,
                profile : {"default"}] :
            Cardinality({i \in 1..4 :
                <<~e.brew, ~e.mas, e.skip_dotfiles, e.skip_preferences>>[i]}) <= 1}

PlainEnv == [brew |-> TRUE, mas |-> TRUE, skip_dotfiles |-> FALSE, skip_preferences |-> FALSE,
             profile |-> "default"]

\* ids of the profile for which an adapter has an is-installed query
\* (is_tap_installed, is_formula_installed, is_cask_installed, mas.is_installed)
BrewMasIds(p) == UNION {{ItemId(k, p[k][i]) : i \in DOMAIN p[k]} : k \in QueriedKinds}

NewState(name) ==
    [profile |-> name, completed_items |-> <<>>, failed_items |-> <<>>,
     status |-> "in_progress"]

NewResult == [success |-> TRUE, completed_count |-> 0, failed_count |-> 0,
              completed_items |-> <<>>, failed_items |-> <<>>,
              interrupted |-> FALSE, manual_apps |-> <<>>]

NoCall == [outcome |-> "none", error |-> None]

\* ------------------------------------------------------------------- Init
\* ------------------------------------------------ profiles of a Configuration
\* Applications: `is_none` says that the profile has no applications entry,
\* `homebrew_none` that the entry has no homebrew part.
NoApplications ==
    [is_none |-> TRUE, homebrew_none |-> TRUE, taps |-> <<>>, formulas |-> <<>>,
     casks |-> <<>>, mas |-> <<>>, manual |-> <<>>]

ApplicationsSet ==
    {NoApplications,
     [is_none |-> FALSE, homebrew_none |-> FALSE, taps |-> <<>>, formulas |-> <<"git">>,
      casks |-> <<>>, mas |-> <<>>, manual |-> <<"Xcode">>],
     [is_none |-> FALSE, homebrew_none |-> TRUE, taps |-> <<>>, formulas |-> <<>>,
      casks |-> <<>>, mas |-> <<"Keynote">>, manual |-> <<>>],
     [is_none |-> FALSE, homebrew_none |-> FALSE, taps |-> <<>>, formulas |-> <<"node">>,
      casks |-> <<>>, mas |-> <<>>, manual |-> <<>>]}

\* the applications entries of the profile that is extended
ParentApplicationsSet ==
    {NoApplications,
     [is_none |-> FALSE, homebrew_none |-> FALSE, taps |-> <<>>, formulas |-> <<"git">>,
      casks |-> <<"slack">>, mas |-> <<>>, manual |-> <<>>]}

\* a preference is its domain; "nokey" stands for an entry without key/value
NoKeyPreference == "nokey"

\* Profile (models/config.py) as _parse_profile builds it for the key
\* "default": name is the key, description and extends are None, "" or a text
ProfileSet ==
    [name : {"default"},
     description : {None, "", "mine"},
     extends : {None, "", "base", "ghost", "default"},
     applications : ApplicationsSet,
     dotfiles : {<<>>, <<".zshrc">>},
     preferences : {<<>>, <<"dock">>, <<NoKeyPreference>>}]

\* the profiles of the key "base", the one "default" may extend
ParentProfileSet ==
    [name : {"base"},
     description : {None, "shared"},
     extends : {None, "root", "default"},
     applications : ParentApplicationsSet,
     dotfiles : {<<>>, <<".gitconfig">>},
     preferences : {<<>>, <<"finder">>}]

\* the profile of the key "root", the one "base" may extend
RootProfile ==
    [name |-> "root", description |-> "oldest", extends |-> None,
     applications |->
        [is_none |-> FALSE, homebrew_none |-> FALSE, taps |-> <<"fonts">>,
         formulas |-> <<"vim">>, casks |-> <<"iterm">>, mas |-> <<"Pages">>,
         manual |-> <<>>],
     dotfiles |-> <<".vimrc">>,
     preferences |-> <<"keyboard">>]

\* Configuration.profiles with the profile "default", maybe "base", and
\* maybe "root" at the end of the chain default, base, root
Configs ==
    {[n \in {"default"} |-> child] : child \in ProfileSet}
    \cup {[n \in {"default", "base"} |-> IF n = "default" THEN child ELSE parent] :
             child \in ProfileSet, parent \in ParentProfileSet}
    \cup {[n \in {"default", "base", "root"} |->
               IF n = "default" THEN child ELSE IF n = "base" THEN parent ELSE RootProfile] :
             child \in {c \in ProfileSet : c.extends = "base"},
             parent \in {q \in ParentProfileSet : q.extends = "root"}}

ProfileNames == {"default", "base", "root", "ghost"}

NoConfig == [n \in {} |-> NoApplications]

NoOutput == [status |-> "unset"]

\* Python truth value of profile.extends
Truthy(x) == x # None /\ x # ""

\* the longest chain of extends a document of Configs has
MaxHops == 2

\* resolve_profile lines 41-52, the merge of a child with its parent
Merged(child, parent) ==
    [name |-> child.name,
     description |-> IF Truthy(child.description)
                     THEN child.description ELSE parent.description,
     extends |-> None,
     applications |-> IF ~child.applications.is_none
                      THEN child.applications ELSE parent.applications,
     dotfiles |-> IF child.dotfiles # <<>> THEN child.dotfiles ELSE parent.dotfiles,
     preferences |-> IF child.preferences # <<>>
                     THEN child.preferences ELSE parent.preferences]

\* resolve_profile with a merge that follows the parent's own extends
RECURSIVE ResolveChain(_, _, _)
ResolveChain(cfg, name, hops) ==
    IF name \notin DOMAIN cfg THEN [status |-> "ValueError", document |-> cfg]
    ELSE LET p == cfg[name]
         IN  IF ~Truthy(p.extends) \/ hops = 0
             THEN [status |-> "ok", profile |-> p, document |-> cfg]
             ELSE LET up == ResolveChain(cfg, p.extends, hops - 1)
                  IN  IF up.status # "ok" THEN [status |-> "ValueError", document |-> cfg]
                      ELSE [status |-> "ok", profile |-> Merged(p, up.profile),
                            document |-> cfg]

ResolveProfileTransitive(cfg, name) == ResolveChain(cfg, name, MaxHops)

\* resolve_profile as a recursion along extends, which a cycle never lets
\* end: Python gives up with a RecursionError
RECURSIVE ResolveWalk(_, _, _)
ResolveWalk(cfg, name, depth) ==
    IF depth = 0 THEN [status |-> "RecursionError", document |-> cfg]
    ELSE IF name \notin DOMAIN cfg THEN [status |-> "ValueError", document |-> cfg]
    ELSE LET p == cfg[name]
         IN  IF ~Truthy(p.extends)
             THEN [status |-> "ok", profile |-> p, document |-> cfg]
             ELSE LET up == ResolveWalk(cfg, p.extends, depth - 1)
                  IN  IF up.status # "ok" THEN [status |-> up.status, document |-> cfg]
                      ELSE [status |-> "ok", profile |-> Merged(p, up.profile),
                            document |-> cfg]

ResolveProfileRecursive(cfg, name) == ResolveWalk(cfg, name, MaxHops + 2)

\* resolve_profile with a parent that is resolved against its own parent
\* before the merge
ResolveProfileTwoHops(cfg, name) ==
    IF name \notin DOMAIN cfg THEN [status |-> "ValueError", document |-> cfg]
    ELSE LET p == cfg[name]
         IN  IF ~Truthy(p.extends)
             THEN [status |-> "ok", profile |-> p, document |-> cfg]
             ELSE IF p.extends \notin DOMAIN cfg
             THEN [status |-> "ValueError", document |-> cfg]
             ELSE LET parent == cfg[p.extends]
                      above == IF Truthy(parent.extends) /\ parent.extends \in DOMAIN cfg
                               THEN Merged(parent, cfg[parent.extends]) ELSE parent
                  IN  [status |-> "ok", profile |-> Merged(p, above), document |-> cfg]

\* resolve_profile with a merge of the homebrew lists, one by one
ResolveProfileDeepMerge(cfg, name) ==
    IF name \notin DOMAIN cfg THEN [status |-> "ValueError", document |-> cfg]
    ELSE LET p == cfg[name]
         IN  IF ~Truthy(p.extends)
             THEN [status |-> "ok", profile |-> p, document |-> cfg]
             ELSE IF p.extends \notin DOMAIN cfg
             THEN [status |-> "ValueError", document |-> cfg]
             ELSE LET parent == cfg[p.extends]
                      m == Merged(p, parent)
                      pa == parent.applications
                  IN  [status |-> "ok",
                       profile |->
                          [m EXCEPT !.applications =
                              IF p.applications.is_none \/ pa.is_none THEN @
                              ELSE [@ EXCEPT
                                      !.homebrew_none = @ /\ pa.homebrew_none,
                                      !.taps = IF @ # <<>> THEN @ ELSE pa.taps,
                                      !.formulas = IF @ # <<>> THEN @ ELSE pa.formulas,
                                      !.casks = IF @ # <<>> THEN @ ELSE pa.casks]],
                       document |-> cfg]

\* resolve_profile with a merge that forgets the child's description
ResolveProfileParentText(cfg, name) ==
    IF name \notin DOMAIN cfg THEN [status |-> "ValueError", document |-> cfg]
    ELSE LET p == cfg[name]
         IN  IF ~Truthy(p.extends)
             THEN [status |-> "ok", profile |-> p, document |-> cfg]
             ELSE IF p.extends \notin DOMAIN cfg
             THEN [status |-> "ValueError", document |-> cfg]
             ELSE [status |-> "ok",
                   profile |-> [Merged(p, cfg[p.extends]) EXCEPT
                                   !.description = cfg[p.extends].description],
                   document |-> cfg]

\* resolve_profile with a merge written into the stored child
ResolveProfileInPlace(cfg, name) ==
    IF name \notin DOMAIN cfg THEN [status |-> "ValueError", document |-> cfg]
    ELSE LET p == cfg[name]
         IN  IF ~Truthy(p.extends)
             THEN [status |-> "ok", profile |-> p, document |-> cfg]
             ELSE IF p.extends \notin DOMAIN cfg
             THEN [status |-> "ValueError", document |-> cfg]
             ELSE LET m == Merged(p, cfg[p.extends])
                  IN  [status |-> "ok", profile |-> m,
                       document |-> [cfg EXCEPT ![name] = [m EXCEPT !.extends = p.extends]]]

\* PreviewService._get_profile, lines 20-24, and resolve_profile, lines
\* 26-52: the profile returned or the error raised, and the document as the
\* call leaves it (the code builds a new Profile and assigns to nothing that
\* the document holds)
ResolveProfile(cfg, name) ==
    IF name \notin DOMAIN cfg THEN [status |-> "ValueError", document |-> cfg]
    ELSE LET p == cfg[name]
         IN  IF ~Truthy(p.extends)
             THEN [status |-> "ok", profile |-> p, document |-> cfg]
             ELSE IF p.extends \notin DOMAIN cfg
             THEN [status |-> "ValueError", document |-> cfg]
             ELSE [status |-> "ok", profile |-> Merged(p, cfg[p.extends]),
                   document |-> cfg]

\* PreviewService.preview, lines 60-86: the lists it returns for a profile
PreviewItems(p) ==
    [k \in Kinds |->
        CASE k = "tap" -> IF ~p.applications.is_none /\ ~p.applications.homebrew_none
                          THEN p.applications.taps ELSE <<>>
          [] k = "formula" -> IF ~p.applications.is_none /\ ~p.applications.homebrew_none
                              THEN p.applications.formulas ELSE <<>>
          [] k = "cask" -> IF ~p.applications.is_none /\ ~p.applications.homebrew_none
                           THEN p.applications.casks ELSE <<>>
          [] k = "mas" -> IF ~p.applications.is_none THEN p.applications.mas ELSE <<>>
          [] k = "dotfile" -> p.dotfiles
          [] k = "preference" -> p.preferences]

\* _apply_preferences, lines 368-369: entries without key or value are passed
RECURSIVE WithKey(_)
WithKey(prefs) ==
    IF prefs = <<>> THEN <<>>
    ELSE IF Head(prefs) = NoKeyPreference THEN WithKey(Tail(prefs))
    ELSE <<Head(prefs)>> \o WithKey(Tail(prefs))

\* The lists the four loops of SetupService.run iterate over for a profile
\* (_install_homebrew, _install_mas_apps, _setup_dotfiles, _apply_preferences)
SetupItems(p) ==
    [k \in Kinds |->
        CASE k = "tap" -> IF p.applications.is_none \/ p.applications.homebrew_none
                          THEN <<>> ELSE p.applications.taps
          [] k = "formula" -> IF p.applications.is_none \/ p.applications.homebrew_none
                              THEN <<>> ELSE p.applications.formulas
          [] k = "cask" -> IF p.applications.is_none \/ p.applications.homebrew_none
                           THEN <<>> ELSE p.applications.casks
          [] k = "mas" -> IF p.applications.is_none THEN <<>> ELSE p.applications.mas
          [] k = "dotfile" -> p.dotfiles
          [] k = "preference" -> WithKey(p.preferences)]

\* no profile resolution is going on
ResolverIdle ==
    /\ config = NoConfig
    /\ setup_out = NoOutput
    /\ preview_out = NoOutput

\* ----------------------------------------------------- storage location
Absent == "absent"                  \* no such file or directory

DefaultDir == "default"             \* DEFAULT_CONFIG_DIR, ~/.config/macsetup

ICloudDir == "icloud"               \* ICLOUD_DRIVE_PATH / "macsetup"

PointerPath == "default/config-dir" \* DEFAULT_CONFIG_DIR / POINTER_FILE_NAME

\* the commands of the parser that work on the resolved directory, and init
DirCommands == {"setup", "capture", "preview", "sync", "profile", "validate"}

Commands == DirCommands \cup {"init"}

NoMain == [status |-> "unset"]

NoResult == [success |-> FALSE, error |-> "unset"]

IdleCall == [pc |-> "idle", op |-> "none"]

\* Path(target).is_dir() for the paths a pointer file can name
IsDir(path) == path = ICloudDir /\ icloud.drive /\ icloud.dir

\* precedence with the pointer file looked at before the environment
GetConfigDirPointerFirst ==
    IF pointer # Absent
    THEN IF IsDir(pointer)
         THEN [status |-> "ok", dir |-> pointer]
         ELSE [status |-> "ConfigDirError", pointer_path |-> PointerPath,
               target_path |-> pointer]
    ELSE IF Truthy(environ) THEN [status |-> "ok", dir |-> environ]
    ELSE [status |-> "ok", dir |-> DefaultDir]

\* an unreachable pointer target falls back to the default directory
GetConfigDirFallsBack ==
    IF Truthy(environ) THEN [status |-> "ok", dir |-> environ]
    ELSE IF pointer # Absent /\ IsDir(pointer) THEN [status |-> "ok", dir |-> pointer]
    ELSE [status |-> "ok", dir |-> DefaultDir]

\* get_config_dir, cli.py lines 111-139
GetConfigDir ==
    IF Truthy(environ) THEN [status |-> "ok", dir |-> environ]
    ELSE IF pointer # Absent
    THEN IF IsDir(pointer)
         THEN [status |-> "ok", dir |-> pointer]
         ELSE [status |-> "ConfigDirError", pointer_path |-> PointerPath,
               target_path |-> pointer]
    ELSE [status |-> "ok", dir |-> DefaultDir]

\* no storage command has been given
StorageIdle ==
    /\ local = [config |-> Absent, dotfiles |-> Absent]
    /\ icloud = [drive |-> FALSE, dir |-> FALSE, config |-> Absent, dotfiles |-> Absent]
    /\ pointer = Absent
    /\ environ = None
    /\ main_out = NoMain
    /\ ini = IdleCall
    /\ init_result = NoResult

Init ==
    /\ \/ /\ todo = 1
          /\ profile \in Profiles
          /\ env \in Envs
       \/ /\ todo \in 2..MaxRuns
          /\ profile \in RepeatProfiles(todo)
          /\ env = PlainEnv
    /\ installed \in SUBSET BrewMasIds(profile)
    /\ file = NoState
    /\ pc = "idle"
    /\ svc = [force |-> FALSE, skip_dotfiles |-> FALSE, skip_preferences |-> FALSE,
              brew |-> TRUE, mas |-> TRUE, profile_name |-> "default"]
    /\ interrupted = FALSE
    /\ state = NoState
    /\ loaded = NoState
    /\ result = NewResult
    /\ pos = <<NumCats + 1, 1>>
    /\ calls = <<>>
    /\ skipped = {}
    /\ last_call = NoCall
    /\ exit_code = NoExit
    /\ prev = [clean |-> FALSE, force |-> FALSE]
    /\ ResolverIdle
    /\ StorageIdle

\* ------------------------------------------------------ the executor's loops
EndPos == <<NumCats + 1, 1>>

\* The guards of run() (lines 206-219) and the early returns of
\* _install_homebrew / _install_mas_apps: is category c entered at all?
CatEnabled(s, kind) ==
    CASE kind \in {"tap", "formula", "cask"} -> s.brew
      [] kind = "mas"                        -> s.mas
      [] kind = "dotfile"                    -> ~s.skip_dotfiles
      [] OTHER                               -> ~s.skip_preferences

\* The next loop iteration at or after index i of the c-th category, for a
\* service with fields s: for-loops that are exhausted, empty or not
\* entered are passed over.
RECURSIVE NextPos(_, _, _)
NextPos(s, c, i) ==
    IF c > NumCats THEN EndPos
    ELSE IF CatEnabled(s, CatOrder[c]) /\ i <= Len(profile[CatOrder[c]]) THEN <<c, i>>
    ELSE NextPos(s, c + 1, 1)

PcAt(p) == IF p = EndPos THEN "final" ELSE "loop"

KindAt(p) == CatOrder[p[1]]

IdAt(p) == ItemId(KindAt(p), profile[KindAt(p)][p[2]])

CurKind == KindAt(pos)

CurId == IdAt(pos)

\* _is_completed
IsCompleted(id) == id \in Range(state.completed_items)

\* is_tap_installed / is_formula_installed / is_cask_installed /
\* mas.is_installed; the dotfile and preference loops ask no adapter.
IsInstalled(kind, id) == kind \in QueriedKinds /\ id \in installed

\* the `continue` test at the head of each loop body
SkipItemInstalledOnly(kind, id) == ~svc.force /\ IsInstalled(kind, id)

SkipItem(kind, id) == ~svc.force /\ (IsCompleted(id) \/ IsInstalled(kind, id))

\* _mark_completed
MarkCompleted(st, id) == [st EXCEPT !.completed_items = Append(@, id)]

\* _mark_failed (the timestamp is not modelled)
MarkFailed(st, type, identifier, error) ==
    [st EXCEPT !.failed_items =
        Append(@, [type |-> type, identifier |-> identifier, error |-> error])]

\* `x_result.error or "Unknown error"`
ErrorText(e) == IF e = None THEN "Unknown error" ELSE e

\* cmd_setup, lines 356-361
ExitCode(r) ==
    IF r.interrupted THEN 130
    ELSE IF r.failed_count > 0 THEN 3
    ELSE 0

\* _load_state that restores the failure records only
LoadStateForgets ==
    IF file = NoState THEN NoState ELSE [file EXCEPT !.completed_items = <<>>]

\* _load_state: the saved state, or nothing when there is no file
LoadState == file

\* ---------------------------------------------------------------- actions

\* Did the latest run() return with every item applied or skipped: not
\* interrupted, no failure, no exception?
CleanRun ==
    /\ exit_code \notin {NoExit, 2}
    /\ ~result.interrupted
    /\ result.success
    /\ result.failed_count = 0

\* cmd_setup up to the first loop iteration of SetupService.run: the
\* existence checks, SetupService.__init__ and run() lines 191-202.
CmdSetup(config_ok, force, resume) ==
    /\ pc = "idle"
    /\ todo > 0
    /\ IF ~config_ok
       THEN /\ exit_code' = 2
            /\ UNCHANGED <<profile, installed, file, env, todo, pc, svc, interrupted, state,
                           loaded, result, pos, calls, skipped, last_call, prev, outsideSetup>>
       ELSE /\ todo' = todo - 1
            /\ svc' = [force |-> force, skip_dotfiles |-> env.skip_dotfiles,
                       skip_preferences |-> env.skip_preferences,
                       brew |-> env.brew, mas |-> env.mas,
                       profile_name |-> env.profile]
            /\ interrupted' = FALSE
            /\ loaded' = IF resume THEN LoadState ELSE NoState
            /\ state' = IF loaded' = NoState THEN NewState(env.profile) ELSE loaded'
            /\ result' = NewResult
            /\ pos' = NextPos(svc', 1, 1)
            /\ pc' = PcAt(pos')
            /\ calls' = <<>>
            /\ skipped' = {}
            /\ last_call' = NoCall
            /\ exit_code' = NoExit
            /\ prev' = [clean |-> CleanRun, force |-> svc.force]
            /\ UNCHANGED <<profile, installed, file, env, outsideSetup>>

\* handle_sigint: SIGINT / SIGTERM delivered while the service exists
Signal ==
    /\ pc \in {"loop", "call", "final"}
    /\ ~interrupted
    /\ interrupted' = TRUE
    /\ UNCHANGED <<profile, installed, file, env, todo, pc, svc, state, loaded, result,
                   pos, calls, skipped, last_call, exit_code, prev, outsideSetup>>

LoopHeadNoFlagTest ==
    /\ pc = "loop"
    /\ IF SkipItem(CurKind, CurId)
       THEN /\ skipped' = skipped \cup {pos}
            /\ pos' = NextPos(svc, pos[1], pos[2] + 1)
            /\ pc' = PcAt(pos')
            /\ UNCHANGED calls
       ELSE /\ calls' = Append(calls, pos)
            /\ pc' = "call"
            /\ UNCHANGED <<pos, skipped>>
    /\ UNCHANGED <<profile, installed, file, env, todo, svc, interrupted, state, loaded,
                   result, last_call, exit_code, prev, outsideSetup>>

\* Head of a loop iteration: the interrupted test, the skip test and the
\* start of the install/apply call.  A signal that lands between the test
\* of the flag and the call has the effect of one that lands during the
\* call, which is the case the "call" state stands for.
LoopHead ==
    /\ pc = "loop"
    /\ IF interrupted
       THEN /\ pos' = EndPos
            /\ pc' = "final"
            /\ UNCHANGED <<calls, skipped>>
       ELSE IF SkipItem(CurKind, CurId)
       THEN /\ skipped' = skipped \cup {pos}
            /\ pos' = NextPos(svc, pos[1], pos[2] + 1)
            /\ pc' = PcAt(pos')
            /\ UNCHANGED calls
       ELSE /\ calls' = Append(calls, pos)
            /\ pc' = "call"
            /\ UNCHANGED <<pos, skipped>>
    /\ UNCHANGED <<profile, installed, file, env, todo, svc, interrupted, state, loaded,
                   result, last_call, exit_code, prev, outsideSetup>>

\* The install/apply call returns success.
ReturnOk ==
    /\ pc = "call"
    /\ last_call' = [outcome |-> "ok", error |-> None]
    /\ state' = MarkCompleted(state, CurId)
    /\ result' = [result EXCEPT !.completed_count = @ + 1]
    /\ installed' = IF CurKind \in QueriedKinds THEN installed \cup {CurId} ELSE installed
    /\ pos' = NextPos(svc, pos[1], pos[2] + 1)
    /\ pc' = PcAt(pos')
    /\ UNCHANGED <<profile, file, env, todo, svc, interrupted, loaded, calls, skipped,
                   exit_code, prev, outsideSetup>>

ReturnFailAbortsCategory(e) ==
    /\ pc = "call"
    /\ last_call' = [outcome |-> "fail", error |-> e]
    /\ state' = MarkFailed(state, CurKind, CurId[2], ErrorText(e))
    /\ result' = [result EXCEPT !.failed_count = @ + 1]
    /\ pos' = NextPos(svc, pos[1] + 1, 1)
    /\ pc' = PcAt(pos')
    /\ UNCHANGED <<profile, installed, file, env, todo, svc, interrupted, loaded, calls,
                   skipped, exit_code, prev, outsideSetup>>

\* The install/apply call returns failure with error e.
ReturnFail(e) ==
    /\ pc = "call"
    /\ last_call' = [outcome |-> "fail", error |-> e]
    /\ state' = MarkFailed(state, CurKind, CurId[2], ErrorText(e))
    /\ result' = [result EXCEPT !.failed_count = @ + 1]
    /\ pos' = NextPos(svc, pos[1], pos[2] + 1)
    /\ pc' = PcAt(pos')
    /\ UNCHANGED <<profile, installed, file, env, todo, svc, interrupted, loaded, calls,
                   skipped, exit_code, prev, outsideSetup>>

ExceptBranchNoEntry(st, res) ==
    [state  |-> st,
     result |-> [res EXCEPT !.success = FALSE, !.failed_items = st.failed_items],
     file   |-> st]

\* run() lines 243-249: what the except branch leaves behind
ExceptBranch(st, res) ==
    LET st2 == MarkFailed(st, "setup", "general", "exception")
    IN  [state  |-> st2,
         result |-> [res EXCEPT !.success = FALSE, !.failed_items = st2.failed_items],
         file   |-> st2]

\* The install/apply call raises (the brew, mas and defaults adapters catch
\* CalledProcessError only; the dotfiles adapter catches every Exception).
ReturnRaise ==
    /\ pc = "call"
    /\ CurKind # "dotfile"
    /\ last_call' = [outcome |-> "raise", error |-> "exception"]
    /\ LET x == ExceptBranch(state, result)
       IN  /\ state' = x.state
           /\ result' = x.result
           /\ file' = x.file
    /\ pos' = EndPos
    /\ pc' = "idle"
    /\ exit_code' = ExitCode(result')
    /\ UNCHANGED <<profile, installed, env, todo, svc, interrupted, loaded, calls,
                   skipped, prev, outsideSetup>>

FinalStatusByFailedItems(st, res, intr) ==
    IF intr
    THEN LET st2 == [st EXCEPT !.status = "in_progress"]
         IN  [state |-> st2, file |-> st2,
              result |-> [res EXCEPT !.success = FALSE, !.interrupted = TRUE]]
    ELSE IF st.failed_items = <<>>
    THEN [state |-> [st EXCEPT !.status = "completed"], file |-> NoState, result |-> res]
    ELSE LET st2 == [st EXCEPT !.status = "completed_with_errors"]
         IN  [state |-> st2, file |-> st2, result |-> res]

FinalStatusKeepsStatus(st, res, intr) ==
    IF intr
    THEN [state |-> st, file |-> st,
          result |-> [res EXCEPT !.success = FALSE, !.interrupted = TRUE]]
    ELSE IF res.failed_count = 0
    THEN [state |-> [st EXCEPT !.status = "completed"], file |-> NoState, result |-> res]
    ELSE LET st2 == [st EXCEPT !.status = "completed_with_errors"]
         IN  [state |-> st2, file |-> st2, result |-> res]

\* run() lines 225-241: the final status, given the flag read at line 226
FinalStatus(st, res, intr) ==
    IF intr
    THEN LET st2 == [st EXCEPT !.status = "in_progress"]
         IN  [state |-> st2, file |-> st2,
              result |-> [res EXCEPT !.success = FALSE, !.interrupted = TRUE]]
    ELSE IF res.failed_count = 0
    THEN [state |-> [st EXCEPT !.status = "completed"], file |-> NoState, result |-> res]
    ELSE LET st2 == [st EXCEPT !.status = "completed_with_errors"]
         IN  [state |-> st2, file |-> st2, result |-> res]

Finish ==
    /\ pc = "final"
    /\ LET x == FinalStatus(state, result, interrupted)
       IN  /\ state' = x.state
           /\ file' = x.file
           /\ result' = [x.result EXCEPT !.manual_apps = profile["manual"],
                                         !.completed_items = x.state.completed_items,
                                         !.failed_items = x.state.failed_items]
    /\ pc' = "idle"
    /\ exit_code' = ExitCode(result')
    /\ UNCHANGED <<profile, installed, env, todo, svc, interrupted, loaded, pos, calls,
                   skipped, last_call, prev, outsideSetup>>

Next ==
    \/ \E config_ok, force, resume \in BOOLEAN : CmdSetup(config_ok, force, resume)
    \/ Signal
    \/ LoopHead
    \/ ReturnOk
    \/ \E e \in AdapterErrors : ReturnFail(e)
    \/ ReturnRaise
    \/ Finish

Spec == Init /\ [][Next]_vars

\* ================================================================ properties

\* rank of a kind in the documented category order
SpecRank(kind) ==
    CASE kind = "tap"     -> 1
      [] kind = "formula" -> 2
      [] kind = "cask"    -> 3
      [] kind = "mas"     -> 4
      [] kind = "dotfile" -> 5
      [] OTHER            -> 6

CatIndex(kind) == CHOOSE c \in Cats : CatOrder[c] = kind

\* positions whose install/apply call was made, or that were skipped
Processed == Range(calls) \cup skipped

CalledIds == {IdAt(calls[m]) : m \in DOMAIN calls}

\* Every item of kind has been executed or skipped (a category that the
\* run does not enter counts as skipped as a whole).
KindProcessed(kind) ==
    CatEnabled(svc, kind) =>
        \A i \in DOMAIN profile[kind] : <<CatIndex(kind), i>> \in Processed

\* run() has returned to cmd_setup
RunReturned == pc = "idle" /\ exit_code \notin {NoExit, 2}

\* run() has returned through line 240, not through the except branch
ReturnedNormally == RunReturned /\ last_call.outcome # "raise"

\* p is before q in category order, then declared list order
SpecBefore(p, q) ==
    \/ SpecRank(KindAt(p)) < SpecRank(KindAt(q))
    \/ KindAt(p) = KindAt(q) /\ p[2] < q[2]

\* C1: the install/apply calls of a run are made in the category order taps,
\* formulas, casks, app-store apps, dotfiles, preferences and, inside a
\* category, in declared list order; when a call is in flight every item of
\* each earlier category and every earlier item of the same category has
\* been executed or skipped.
C1_CategoryOrder ==
    /\ \A m, n \in DOMAIN calls : m < n => SpecBefore(calls[m], calls[n])
    /\ pc = "call" =>
         /\ \A kind \in Kinds : SpecRank(kind) < SpecRank(CurKind) => KindProcessed(kind)
         /\ \A i \in 1..(pos[2] - 1) : <<pos[1], i>> \in Processed

\* a cask call is in flight after a tap call and a formula call were made
C1_Witness ==
    /\ pc = "call"
    /\ CurKind = "cask"
    /\ \E m, n \in DOMAIN calls :
         KindAt(calls[m]) = "tap" /\ KindAt(calls[n]) = "formula"

\* ---- resume
LoadedCompleted == Range(loaded.completed_items)

\* work items (not the synthetic setup:general entry) with a loaded failure
LoadedFailedIds ==
    {ItemId(f.type, f.identifier) : f \in {g \in Range(loaded.failed_items) : g.type \in Kinds}}

\* This run resumes the state that an interrupted run persisted: the
\* interrupted branch is the one that saves status in_progress without a
\* synthetic setup:general entry.
ResumesInterrupted ==
    /\ loaded # NoState
    /\ loaded.status = "in_progress"
    /\ \A f \in Range(loaded.failed_items) : f.type \in Kinds

C3_Idempotent ==
    (RunReturned /\ prev.clean /\ ~prev.force /\ ~svc.force) => result.completed_count = 0

\* ---- partial failure
FailStep == pc = "call" /\ pc' # "call" /\ last_call'.outcome = "fail"

\* items after position p that the run still has to visit
Remaining(p) ==
    {q \in UNION {{<<CatIndex(k), i>> : i \in DOMAIN profile[k]} : k \in Kinds} :
        CatEnabled(svc, KindAt(q)) /\ SpecBefore(p, q)}

\* C4: the step on which an adapter call returns failure appends exactly one
\* entry with the item's kind, key and error message to failed_items, adds
\* one to failed_count, and goes on to the next item if one remains; a run
\* that returns uninterrupted has executed or skipped every item, however
\* many of them failed.
C4_PartialFailure ==
    [][ /\ FailStep =>
             /\ state'.failed_items =
                    Append(state.failed_items,
                           [type |-> CurKind, identifier |-> CurId[2],
                            error |-> last_call'.error])
             /\ state'.completed_items = state.completed_items
             /\ result'.failed_count = result.failed_count + 1
             /\ result'.completed_count = result.completed_count
             /\ (Remaining(pos) # {}) => (pc' = "loop" /\ pos' \in Remaining(pos))
        /\ (ReturnedNormally /\ ~result.interrupted)' =>
             (\A kind \in Kinds : KindProcessed(kind))'
      ]_vars

\* a run returned uninterrupted whose first call failed and which made two
\* more calls after it
C4_Witness ==
    /\ ReturnedNormally
    /\ ~result.interrupted
    /\ result.failed_count >= 1
    /\ Len(calls) >= 3
    /\ state.failed_items # <<>>
    /\ state.failed_items[1].identifier = IdAt(calls[1])[2]
    /\ state.failed_items[1].type = KindAt(calls[1])

\* ---- interruption
SameRun == todo' = todo

\* C5: the signal handler changes nothing but the interrupted flag; once the
\* flag is set no install/apply call is started; and unless a call was in
\* flight when the flag was set, nothing is completed or failed afterwards
\* (so at most the item in flight is).
C5_Interruption ==
    [][ /\ (~interrupted /\ interrupted') =>
             UNCHANGED <<profile, installed, file, env, todo, pc, svc, state, loaded,
                         result, pos, calls, skipped, last_call, exit_code, prev>>
        /\ (interrupted /\ SameRun) => calls' = calls
        /\ (interrupted /\ SameRun /\ pc # "call") =>
             /\ state'.completed_items = state.completed_items
             /\ state'.failed_items = state.failed_items
             /\ result'.completed_count = result.completed_count
             /\ result'.failed_count = result.failed_count
      ]_vars

\* the flag was set while a call was in flight, and items remain after it
C5_Witness ==
    /\ interrupted
    /\ pc = "call"
    /\ Remaining(pos) # {}

\* C6 as stated: when the signal was delivered before run() decided its
\* final status, the returned result has interrupted = TRUE and the
\* run-state file exists with status in_progress and every identifier
\* completed so far.
C6_InterruptedResult ==
    (RunReturned /\ interrupted) =>
        /\ result.interrupted
        /\ file # NoState
        /\ file.status = "in_progress"
        /\ file.completed_items = state.completed_items

\* ---- completion
\* C7 as stated: after a run that was not interrupted the run-state file is
\* absent exactly when the run state's failed_items is empty, and a state
\* with failed items is persisted with status completed_with_errors.
C7_Original ==
    (RunReturned /\ ~interrupted) =>
        /\ (file = NoState) <=> (state.failed_items = <<>>)
        /\ state.failed_items # <<>> =>
               (file # NoState /\ file.status = "completed_with_errors")

\* C7 amended: after a run that was neither interrupted nor ended by the
\* except branch the run-state file is absent exactly when the run itself
\* recorded no failure (failed_count = 0), also when failed_items holds
\* entries loaded by resume; with failed_count > 0 the state is persisted
\* with status completed_with_errors.  After any run a run-state file is
\* present only if the run was interrupted, recorded a failure or ended in
\* the except branch.
C7_Completion ==
    /\ (ReturnedNormally /\ ~interrupted) =>
          /\ (file = NoState) <=> (result.failed_count = 0)
          /\ result.failed_count > 0 =>
                (file = state /\ file.status = "completed_with_errors")
    /\ (RunReturned /\ file # NoState) =>
          \/ result.interrupted
          \/ result.failed_count > 0
          \/ last_call.outcome = "raise"

\* a resumed run returned clean and deleted the file although the failure
\* it loaded is still in failed_items
C7_Witness ==
    /\ ReturnedNormally
    /\ ~interrupted
    /\ loaded # NoState
    /\ state.failed_items # <<>>
    /\ result.failed_count = 0
    /\ file = NoState

\* ---- exceptions
RaiseStep == pc = "call" /\ last_call'.outcome = "raise"

SyntheticEntry == [type |-> "setup", identifier |-> "general", error |-> "exception"]

\* C8: the step on which an adapter call raises ends run() with a result:
\* success is FALSE, failed_items is the failures recorded before plus one
\* synthetic entry, the completed identifiers stay recorded and the state
\* is persisted.
C8_ExceptionCaught ==
    [][ RaiseStep =>
          /\ pc' = "idle"
          /\ exit_code' # NoExit
          /\ ~result'.success
          /\ result'.failed_items = Append(state.failed_items, SyntheticEntry)
          /\ state'.completed_items = state.completed_items
          /\ file' # NoState
          /\ file'.completed_items = state.completed_items
          /\ file'.failed_items = result'.failed_items
      ]_vars

\* a call raised after one item had completed and another had failed
C8_Witness ==
    /\ RunReturned
    /\ last_call.outcome = "raise"
    /\ Len(state.completed_items) >= 1
    /\ Len(result.failed_items) >= 2

\* ---- exit codes
\* C9 as stated: the exit code of a run is 130 when it was interrupted,
\* otherwise 3 when an item failed, otherwise 0, and 0 is returned only
\* for a run with no failed item recorded and no interruption.
C9_ExitCodes ==
    RunReturned =>
        /\ exit_code = (IF result.interrupted THEN 130
                        ELSE IF result.failed_count > 0 THEN 3 ELSE 0)
        /\ exit_code = 0 => (result.failed_items = <<>> /\ ~interrupted)

\* ---- terminal states
Completed ==
    /\ ~result.interrupted
    /\ result.success
    /\ result.failed_count = 0
    /\ state.status = "completed"
    /\ file = NoState

CompletedWithErrors ==
    /\ ~result.interrupted
    /\ result.failed_count > 0
    /\ file = state
    /\ file.status = "completed_with_errors"

Interrupted ==
    /\ result.interrupted
    /\ ~result.success
    /\ file = state
    /\ file.status = "in_progress"

Bit(b) == IF b THEN 1 ELSE 0

\* C10: a run whose adapter calls all return comes to an end, and a run that
\* ended without an exception is in exactly one of the terminal states
\* Completed, CompletedWithErrors, Interrupted.
C10_TerminalStates ==
    /\ [](ReturnedNormally => Bit(Completed) + Bit(CompletedWithErrors) + Bit(Interrupted) = 1)
    /\ (pc # "idle") ~> (pc = "idle")

\* a resumed run ended Interrupted from a loaded completed_with_errors state
C10_Witness ==
    /\ ReturnedNormally
    /\ Interrupted
    /\ loaded # NoState
    /\ loaded.status = "completed_with_errors"

\* number of items a profile lists
ProfileSize(p) ==
    Len(p["tap"]) + Len(p["formula"]) + Len(p["cask"]) + Len(p["mas"])
        + Len(p["dotfile"]) + Len(p["preference"]) + Len(p["manual"])

\* the sessions whose profile lists fewer than MaxItems items
FairInit ==
    /\ Init
    /\ ProfileSize(profile) < MaxItems

\* C11: every result that run() returns lists the profile's manual-install
\* entries, and no adapter call is made for a manual-install entry.
C11_ManualApps ==
    /\ \A m \in DOMAIN calls : KindAt(calls[m]) # "manual"
    /\ RunReturned => result.manual_apps = profile["manual"]

\* ------------------------------------------------------ profile resolution
\* no setup session: the executor's variables at rest
SetupIdle ==
    /\ profile = [k \in ProfileKeys |-> <<>>]
    /\ installed = {}
    /\ file = NoState
    /\ env = PlainEnv
    /\ todo = 0
    /\ pc = "idle"
    /\ svc = [force |-> FALSE, skip_dotfiles |-> FALSE, skip_preferences |-> FALSE,
              brew |-> TRUE, mas |-> TRUE, profile_name |-> "default"]
    /\ interrupted = FALSE
    /\ state = NoState
    /\ loaded = NoState
    /\ result = NewResult
    /\ pos = EndPos
    /\ calls = <<>>
    /\ skipped = {}
    /\ last_call = NoCall
    /\ exit_code = NoExit
    /\ prev = [clean |-> FALSE, force |-> FALSE]

ResolverInit ==
    /\ config \in Configs
    /\ setup_out = NoOutput
    /\ preview_out = NoOutput
    /\ SetupIdle
    /\ StorageIdle

\* cmd_setup, lines 286-322, and SetupService.run, lines 196-219: the profile
\* the executor works on is config.profiles[name]
SetupProfile(name) ==
    /\ name \in DOMAIN config
    /\ setup_out' = [status |-> "ok", name |-> name, items |-> SetupItems(config[name])]
    /\ preview_out' = NoOutput
    /\ UNCHANGED <<config, setupVars, storageVars>>

\* PreviewService(config, name).resolve_profile()
Resolve(name) ==
    /\ LET r == ResolveProfile(config, name)
       IN  /\ preview_out' =
                 IF r.status = "ok"
                 THEN [status |-> "ok", op |-> "resolve", name |-> name,
                       profile |-> r.profile]
                 ELSE [status |-> r.status, op |-> "resolve", name |-> name]
           /\ config' = r.document
    /\ setup_out' = NoOutput
    /\ UNCHANGED <<setupVars, storageVars>>

\* cmd_preview (profile check) and PreviewService.preview
Preview(name) ==
    /\ name \in DOMAIN config
    /\ LET r == ResolveProfile(config, name)
       IN  /\ preview_out' =
                 IF r.status = "ok"
                 THEN [status |-> "ok", op |-> "preview", name |-> name,
                       profile |-> r.profile, items |-> PreviewItems(r.profile)]
                 ELSE [status |-> r.status, op |-> "preview", name |-> name]
           /\ config' = r.document
    /\ setup_out' = NoOutput
    /\ UNCHANGED <<setupVars, storageVars>>

\* the part of a list that is, or is not, among the installed names
Installed(items, inst, wanted) ==
    SelectSeq(items, LAMBDA x : (x \in inst) = wanted)

\* cmd_preview with --diff and PreviewService.diff, lines 112-147; inst is
\* what the adapters list as installed
Diff(name, inst) ==
    /\ name \in DOMAIN config
    /\ LET r == ResolveProfile(config, name)
       IN  /\ preview_out' =
                 IF r.status = "ok"
                 THEN [status |-> "ok", op |-> "diff", name |-> name,
                       profile |-> r.profile,
                       to_install |-> [k \in QueriedKinds |->
                                          Installed(PreviewItems(r.profile)[k], inst, FALSE)],
                       installed |-> [k \in QueriedKinds |->
                                          Installed(PreviewItems(r.profile)[k], inst, TRUE)]]
                 ELSE [status |-> r.status, op |-> "diff", name |-> name]
           /\ config' = r.document
    /\ setup_out' = NoOutput
    /\ UNCHANGED <<setupVars, storageVars>>

ResolverNext ==
    \/ \E name \in ProfileNames : SetupProfile(name)
    \/ \E name \in ProfileNames : Resolve(name)
    \/ \E name \in ProfileNames : Preview(name)
    \/ \E name \in ProfileNames, inst \in {{}, {"git"}} : Diff(name, inst)

ResolverSpec == ResolverInit /\ [][ResolverNext]_vars

\* C12: for a profile that declares extends, the lists the executor works on
\* are the lists of the profile the resolver yields for the same name, the
\* inherited dotfiles, preferences and applications included.
C12_SetupAppliesResolved ==
    (/\ setup_out.status = "ok"
     /\ Truthy(config[setup_out.name].extends)
     /\ ResolveProfile(config, setup_out.name).status = "ok")
    => setup_out.items = SetupItems(ResolveProfile(config, setup_out.name).profile)

\* -------------------------------------------------------- storage location
\* The machine a storage command finds: local files, the iCloud side, a
\* pointer file or none, the environment variable unset, empty or set.
StorageInit ==
    /\ local \in [config : {Absent, "L"}, dotfiles : {Absent, "L"}]
    /\ icloud \in {r \in [drive : BOOLEAN, dir : BOOLEAN,
                          config : {Absent, "R"}, dotfiles : {Absent, "R"}] :
                      ~r.dir => (r.config = Absent /\ r.dotfiles = Absent)}
    /\ pointer \in {Absent, ICloudDir}
    /\ environ \in {None, "", "envdir"}
    /\ main_out = NoMain
    /\ ini = IdleCall
    /\ init_result = NoResult
    /\ SetupIdle
    /\ ResolverIdle

\* main(), cli.py lines 1042-1071, for a command and a --config-dir value
\* (None when the option is not given).  `seen` keeps what the resolution
\* read.  Every command is a process of its own: main_out, ini and
\* init_result describe the latest one.
Main(command, config_dir) ==
    /\ ini.pc = "idle"
    /\ LET r    == IF config_dir # None
                   THEN [status |-> "ok", dir |-> config_dir] ELSE GetConfigDir
           seen == [config_dir |-> config_dir, environ |-> environ, pointer |-> pointer,
                    target_is_dir |-> pointer # Absent /\ IsDir(pointer)]
       IN  main_out' =
             IF r.status = "ok"
             THEN [status |-> "ran", command |-> command,
                   resolved_config_dir |-> r.dir, seen |-> seen]
             ELSE IF command = "init"
             THEN [status |-> "ran", command |-> command,
                   resolved_config_dir |-> DefaultDir, seen |-> seen]
             ELSE [status |-> "ConfigDirError", command |-> command, ret |-> 1,
                   pointer_path |-> r.pointer_path, target_path |-> r.target_path,
                   seen |-> seen]
    /\ ini' = IdleCall
    /\ init_result' = NoResult
    /\ UNCHANGED <<local, icloud, pointer, environ, setupVars, resolverVars>>

\* iCloud Drive becomes available or unavailable (sign-out, offline volume)
ICloudToggle ==
    /\ ini.pc = "idle"
    /\ icloud' = [icloud EXCEPT !.drive = ~@]
    /\ UNCHANGED <<local, pointer, environ, main_out, ini, init_result,
                   setupVars, resolverVars>>

\* ------------------------------------------------------------ init service
\* init_icloud line 50: has_local
HasLocal == local.config # Absent \/ local.dotfiles # Absent

\* init_icloud line 51: has_icloud
HasICloud == icloud.dir /\ icloud.config # Absent

\* the files of both sides and the pointer file
Snapshot ==
    [local |-> local, pointer |-> pointer,
     icloud |-> [dir |-> icloud.dir, config |-> icloud.config, dotfiles |-> icloud.dotfiles]]

\* a remote configuration alone is taken for a conflict
ConflictOnRemote(force) == HasICloud /\ ~force

\* the conflict test is left out
ConflictIgnored(force) == FALSE

\* init_icloud line 54: both sides hold a configuration and force is not set
Conflict(force) == HasLocal /\ HasICloud /\ ~force

\* the call returns r
InitReturn(r) ==
    /\ init_result' = r
    /\ ini' = [ini EXCEPT !.pc = "idle"]

WriteFailure == [success |-> FALSE, error |-> "write_failure",
                 message |-> "iCloud Drive may be full or read-only"]

\* the last call was an init_icloud that migrated the local files and then
\* returned pointer_write_failure (lines 103-114)
AfterPointerFailure ==
    /\ ini.op = "init_icloud"
    /\ ini.available
    /\ ini.has_local
    /\ init_result.error = "pointer_write_failure"

\* init_icloud lines 37-73: availability, conflict detection, mkdir.  With
\* mkdir_ok false the creation of the iCloud macsetup directory fails.  The
\* field retry records that the call follows a migration whose pointer
\* write failed.
InitIcloud(force, mkdir_ok) ==
    /\ ini.pc = "idle"
    /\ LET call == [pc |-> "idle", op |-> "init_icloud", force |-> force,
                    available |-> icloud.drive,
                    has_local |-> HasLocal, has_icloud |-> HasICloud,
                    files_moved |-> 0, before |-> Snapshot,
                    retry |-> AfterPointerFailure]
       IN  IF ~icloud.drive
           THEN /\ init_result' = [success |-> FALSE, error |-> "icloud_not_available"]
                /\ ini' = call
                /\ UNCHANGED icloud
           ELSE IF Conflict(force)
           THEN /\ init_result' = [success |-> FALSE, error |-> "conflict",
                                   local_path |-> "default/config.yaml",
                                   icloud_path |-> "icloud/config.yaml"]
                /\ ini' = call
                /\ UNCHANGED icloud
           ELSE IF ~icloud.dir /\ ~mkdir_ok
           THEN /\ init_result' = WriteFailure
                /\ ini' = call
                /\ UNCHANGED icloud
           ELSE /\ init_result' = [success |-> FALSE, error |-> "running"]
                /\ ini' = [call EXCEPT !.pc = IF HasLocal THEN "copy_config"
                                                ELSE "write_pointer"]
                /\ icloud' = [icloud EXCEPT !.dir = TRUE]
    /\ main_out' = NoMain
    /\ UNCHANGED <<local, pointer, environ, setupVars, resolverVars>>

\* _copy_to_icloud lines 171-174: shutil.copy2 of config.yaml
CopyConfig(ok) ==
    /\ ini.pc = "copy_config"
    /\ IF local.config = Absent
       THEN /\ ini' = [ini EXCEPT !.pc = "copy_dotfiles"]
            /\ UNCHANGED <<icloud, init_result>>
       ELSE IF ok
       THEN /\ icloud' = [icloud EXCEPT !.config = local.config]
            /\ ini' = [ini EXCEPT !.pc = "copy_dotfiles", !.files_moved = @ + 1]
            /\ UNCHANGED init_result
       ELSE /\ \E left \in {icloud.config, "partial"} :
                  icloud' = [icloud EXCEPT !.config = left]
            /\ InitReturn(WriteFailure)
    /\ UNCHANGED <<local, pointer, environ, main_out, setupVars, resolverVars>>

\* a failed copy of dotfiles/ is passed over and the migration goes on
CopyDotfilesGoesOn(ok) ==
    /\ ini.pc = "copy_dotfiles"
    /\ IF local.dotfiles = Absent
       THEN UNCHANGED icloud
       ELSE IF ok
       THEN icloud' = [icloud EXCEPT !.dotfiles = local.dotfiles]
       ELSE \E left \in {icloud.dotfiles, Absent, "partial"} :
               icloud' = [icloud EXCEPT !.dotfiles = left]
    /\ ini' = [ini EXCEPT !.pc = "delete_config"]
    /\ UNCHANGED <<init_result, local, pointer, environ, main_out, setupVars, resolverVars>>

\* _copy_to_icloud lines 176-182: rmtree of the target, then shutil.copytree
CopyDotfiles(ok) ==
    /\ ini.pc = "copy_dotfiles"
    /\ IF local.dotfiles = Absent
       THEN /\ ini' = [ini EXCEPT !.pc = "delete_config"]
            /\ UNCHANGED <<icloud, init_result>>
       ELSE IF ok
       THEN /\ icloud' = [icloud EXCEPT !.dotfiles = local.dotfiles]
            /\ ini' = [ini EXCEPT !.pc = "delete_config", !.files_moved = @ + 1]
            /\ UNCHANGED init_result
       ELSE /\ \E left \in {icloud.dotfiles, Absent, "partial"} :
                  icloud' = [icloud EXCEPT !.dotfiles = left]
            /\ InitReturn(WriteFailure)
    /\ UNCHANGED <<local, pointer, environ, main_out, setupVars, resolverVars>>

\* init_icloud lines 95-98: the message of a cleanup failure
DataSafeMessage ==
    "Files were copied to iCloud but local cleanup failed. Your data is safe in iCloud."

CleanupFailureAsWriteFailure ==
    [success |-> FALSE, error |-> "write_failure",
     message |-> "iCloud Drive may be full or read-only", config_dir |-> ICloudDir]

\* init_icloud lines 90-101: the dict returned when the local cleanup raises
CleanupFailure ==
    [success |-> FALSE, error |-> "cleanup_failure",
     message |-> DataSafeMessage,
     config_dir |-> ICloudDir]

\* _delete_local_originals lines 188-190: unlink of config.yaml
DeleteConfig(ok) ==
    /\ ini.pc = "delete_config"
    /\ IF local.config = Absent
       THEN /\ ini' = [ini EXCEPT !.pc = "delete_dotfiles"]
            /\ UNCHANGED <<local, init_result>>
       ELSE IF ok
       THEN /\ local' = [local EXCEPT !.config = Absent]
            /\ ini' = [ini EXCEPT !.pc = "delete_dotfiles"]
            /\ UNCHANGED init_result
       ELSE /\ UNCHANGED local
            /\ InitReturn(CleanupFailure)
    /\ UNCHANGED <<icloud, pointer, environ, main_out, setupVars, resolverVars>>

\* _delete_local_originals lines 192-194: rmtree of dotfiles/
DeleteDotfiles(ok) ==
    /\ ini.pc = "delete_dotfiles"
    /\ IF local.dotfiles = Absent
       THEN /\ ini' = [ini EXCEPT !.pc = "write_pointer"]
            /\ UNCHANGED <<local, init_result>>
       ELSE IF ok
       THEN /\ local' = [local EXCEPT !.dotfiles = Absent]
            /\ ini' = [ini EXCEPT !.pc = "write_pointer"]
            /\ UNCHANGED init_result
       ELSE /\ \E left \in {local.dotfiles, "partial"} :
                  local' = [local EXCEPT !.dotfiles = left]
            /\ InitReturn(CleanupFailure)
    /\ UNCHANGED <<icloud, pointer, environ, main_out, setupVars, resolverVars>>

WritePointerNeverExisting(ok) ==
    /\ ini.pc = "write_pointer"
    /\ IF ok
       THEN /\ pointer' = ICloudDir
            /\ InitReturn([success |-> TRUE, error |-> None, storage |-> "icloud", config_dir |-> ICloudDir,
                           migrated |-> ini.has_local, files_moved |-> ini.files_moved,
                           existing_config |-> FALSE])
       ELSE /\ UNCHANGED pointer
            /\ InitReturn([success |-> FALSE, error |-> "pointer_write_failure"])
    /\ UNCHANGED <<local, icloud, environ, main_out, setupVars, resolverVars>>

\* init_icloud lines 103-122 (after a migration), 125-141 (existing iCloud
\* configuration) and 144-158 (fresh start): write_pointer_file and return
WritePointer(ok) ==
    /\ ini.pc = "write_pointer"
    /\ IF ok
       THEN /\ pointer' = ICloudDir
            /\ InitReturn([success |-> TRUE, error |-> None, storage |-> "icloud", config_dir |-> ICloudDir,
                           migrated |-> ini.has_local, files_moved |-> ini.files_moved,
                           existing_config |-> ~ini.has_local /\ ini.has_icloud])
       ELSE /\ UNCHANGED pointer
            /\ InitReturn([success |-> FALSE, error |-> "pointer_write_failure"])
    /\ UNCHANGED <<local, icloud, environ, main_out, setupVars, resolverVars>>

\* the pointer file is removed whether or not the copy was made
PointerRemovedAnyway(copied) == Absent

\* init_local lines 224-250: delete_pointer_file is reached only when the
\* copy block raised nothing
PointerAfterCopy(copied) == IF copied THEN Absent ELSE pointer

\* init_local lines 226-238 with the wrong test: a payload is copied back
\* only where the default directory has none
CopiedBackKeepsLocal(remote, loc) == IF loc = Absent THEN remote ELSE loc

\* init_local lines 226-238: a payload of the remote directory replaces the
\* one of the default directory (copy2 overwrites, rmtree + copytree
\* replaces); where the remote directory has none, the local one stays
CopiedBack(remote, loc) == IF remote # Absent THEN remote ELSE loc

\* init_local lines 196-258.  fail_at names the copy that raises, if it is
\* made: "config" (copy2), "dotfiles" (rmtree + copytree) or "none".
InitLocal(fail_at) ==
    /\ ini.pc = "idle"
    /\ ini' = [pc |-> "idle", op |-> "init_local", before |-> Snapshot,
               target_is_dir |-> pointer # Absent /\ IsDir(pointer)]
    /\ IF pointer = Absent
       THEN /\ init_result' = [success |-> FALSE, error |-> "not_using_icloud"]
            /\ UNCHANGED <<local, pointer>>
       ELSE IF ~IsDir(pointer)
       THEN /\ init_result' = [success |-> FALSE, error |-> "icloud_not_accessible"]
            /\ UNCHANGED <<local, pointer>>
       ELSE IF icloud.config # Absent /\ fail_at = "config"
       THEN /\ \E left \in {local.config, "partial"} :
                  local' = [local EXCEPT !.config = left]
            /\ init_result' = [success |-> FALSE, error |-> "copy_failure"]
            /\ pointer' = PointerAfterCopy(FALSE)
       ELSE IF icloud.dotfiles # Absent /\ fail_at = "dotfiles"
       THEN /\ \E left \in {local.dotfiles, Absent, "partial"} :
                  local' = [config |-> CopiedBack(icloud.config, local.config),
                            dotfiles |-> left]
            /\ init_result' = [success |-> FALSE, error |-> "copy_failure"]
            /\ pointer' = PointerAfterCopy(FALSE)
       ELSE /\ local' = [config |-> CopiedBack(icloud.config, local.config),
                         dotfiles |-> CopiedBack(icloud.dotfiles, local.dotfiles)]
            /\ pointer' = PointerAfterCopy(TRUE)
            /\ init_result' = [success |-> TRUE, error |-> None, storage |-> "local",
                               config_dir |-> DefaultDir, icloud_dir |-> pointer,
                               files_copied |-> Bit(icloud.config # Absent)
                                                + Bit(icloud.dotfiles # Absent)]
    /\ main_out' = NoMain
    /\ UNCHANGED <<icloud, environ, setupVars, resolverVars>>

\* status() with the wrong test: the storage kind follows the availability
\* of iCloud Drive
StatusByAvailability ==
    IF icloud.drive
    THEN [storage |-> "icloud", config_dir |-> pointer,
          pointer_file |-> PointerPath, icloud_available |-> icloud.drive]
    ELSE [storage |-> "local", config_dir |-> DefaultDir,
          pointer_file |-> "not set", icloud_available |-> icloud.drive]

\* status() lines 266-282: the dict it returns
StatusReport ==
    IF pointer # Absent
    THEN [storage |-> "icloud", config_dir |-> pointer,
          pointer_file |-> PointerPath, icloud_available |-> icloud.drive]
    ELSE [storage |-> "local", config_dir |-> DefaultDir,
          pointer_file |-> "not set", icloud_available |-> icloud.drive]

\* status() lines 260-282: reads the pointer file, writes nothing
Status ==
    /\ ini.pc = "idle"
    /\ ini' = [pc |-> "idle", op |-> "status"]
    /\ init_result' = StatusReport
    /\ main_out' = NoMain
    /\ UNCHANGED <<local, icloud, pointer, environ, setupVars, resolverVars>>

StorageNext ==
    \/ \E command \in Commands, config_dir \in {None, "argdir"} : Main(command, config_dir)
    \/ ICloudToggle
    \/ \E force, mkdir_ok \in BOOLEAN : InitIcloud(force, mkdir_ok)
    \/ \E ok \in BOOLEAN : CopyConfig(ok)
    \/ \E ok \in BOOLEAN : CopyDotfiles(ok)
    \/ \E ok \in BOOLEAN : DeleteConfig(ok)
    \/ \E ok \in BOOLEAN : DeleteDotfiles(ok)
    \/ \E ok \in BOOLEAN : WritePointer(ok)
    \/ \E fail_at \in {"none", "config", "dotfiles"} : InitLocal(fail_at)
    \/ Status

StorageSpec == StorageInit /\ [][StorageNext]_vars

\* ------------------------------------------- properties: storage location
MainReturned == main_out.status # "unset"

MainRan == main_out.status = "ran"

\* C13 as stated: the directory is the --config-dir argument when given,
\* otherwise the environment value when set, otherwise the pointer file's
\* target when the pointer file exists, otherwise the default directory, for
\* every combination of the four inputs.
C13_Original ==
    MainReturned =>
        /\ MainRan
        /\ main_out.resolved_config_dir =
              IF main_out.seen.config_dir # None THEN main_out.seen.config_dir
              ELSE IF main_out.seen.environ # None THEN main_out.seen.environ
              ELSE IF main_out.seen.pointer # Absent THEN main_out.seen.pointer
              ELSE DefaultDir

\* C13: the directory a command works on is the --config-dir argument when
\* given; otherwise the environment value when set and not empty; otherwise,
\* when the pointer file exists, its target if that is an existing directory,
\* while with an unreachable target only init runs, on the default directory;
\* otherwise the default directory.
C13_Precedence ==
    MainReturned =>
        IF main_out.seen.config_dir # None
        THEN MainRan /\ main_out.resolved_config_dir = main_out.seen.config_dir
        ELSE IF Truthy(main_out.seen.environ)
        THEN MainRan /\ main_out.resolved_config_dir = main_out.seen.environ
        ELSE IF main_out.seen.pointer = Absent
        THEN MainRan /\ main_out.resolved_config_dir = DefaultDir
        ELSE IF main_out.seen.target_is_dir
        THEN MainRan /\ main_out.resolved_config_dir = main_out.seen.pointer
        ELSE IF main_out.command = "init"
        THEN MainRan /\ main_out.resolved_config_dir = DefaultDir
        ELSE ~MainRan

\* a command ran on the pointer's target although the local default exists
C13_Witness ==
    /\ MainRan
    /\ main_out.seen.config_dir = None
    /\ ~Truthy(main_out.seen.environ)
    /\ main_out.seen.pointer = ICloudDir
    /\ main_out.resolved_config_dir = ICloudDir
    /\ local.config # Absent

\* C14: when resolution reaches a pointer file whose target is not an
\* existing directory, get_config_dir fails with ConfigDirError carrying the
\* pointer path and the target, and main() returns 1 without running setup,
\* capture, preview, sync, profile or validate.
C14_UnreachableTarget ==
    /\ (~Truthy(environ) /\ pointer # Absent /\ ~IsDir(pointer)) =>
          /\ GetConfigDir.status = "ConfigDirError"
          /\ GetConfigDir.pointer_path = PointerPath
          /\ GetConfigDir.target_path = pointer
    /\ (/\ MainReturned
        /\ main_out.seen.config_dir = None
        /\ ~Truthy(main_out.seen.environ)
        /\ main_out.seen.pointer # Absent
        /\ ~main_out.seen.target_is_dir
        /\ main_out.command \in DirCommands) =>
          /\ main_out.status = "ConfigDirError"
          /\ main_out.ret = 1
          /\ main_out.pointer_path = PointerPath
          /\ main_out.target_path = main_out.seen.pointer

\* setup was refused because the pointer names a directory that is not there
C14_Witness ==
    /\ main_out.status = "ConfigDirError"
    /\ main_out.command = "setup"
    /\ main_out.seen.pointer = ICloudDir
    /\ ~IsDir(pointer)

\* ----------------------------------------------- properties: init service
\* the latest InitService call was init_icloud with iCloud Drive available
ICloudCall == ini.op = "init_icloud" /\ ini.available

\* C15: init_icloud with force=false, when a local configuration and a
\* remote document both exist, returns error conflict naming the local and
\* the remote path and leaves local files, remote files and the pointer file
\* as they were.
C15_Conflict ==
    (ICloudCall /\ ini.has_local /\ ini.has_icloud /\ ~ini.force) =>
        /\ ini.pc = "idle"
        /\ init_result = [success |-> FALSE, error |-> "conflict",
                          local_path |-> "default/config.yaml",
                          icloud_path |-> "icloud/config.yaml"]
        /\ Snapshot = ini.before

\* a conflict was reported while a pointer file was already there
C15_Witness ==
    /\ ICloudCall
    /\ ~ini.force
    /\ init_result.error = "conflict"
    /\ local.config # Absent
    /\ icloud.config # Absent
    /\ pointer # Absent

\* the latest InitService call is an init_icloud that found local files
Migration == ICloudCall /\ ini.has_local

\* the iCloud side holds all that the local side held when the call began
RemoteComplete ==
    /\ ini.before.local.config # Absent => icloud.config = ini.before.local.config
    /\ ini.before.local.dotfiles # Absent => icloud.dotfiles = ini.before.local.dotfiles

LocalIntact == local = ini.before.local

LocalRemoved == local = [config |-> Absent, dotfiles |-> Absent]

\* C16: a migration copies, then deletes the local originals, then writes
\* the pointer: a local file is deleted only when the whole copy succeeded,
\* the pointer is written only after the local originals are gone, a failed
\* copy returns write_failure with the local files intact and the pointer
\* not written, and in every state a complete copy exists on one side.
C16_MigrationOrder ==
    /\ [][(Migration /\ ini.pc # "idle" /\ local' # local) =>
             (RemoteComplete /\ ini.pc \in {"delete_config", "delete_dotfiles"})]_vars
    /\ [][(Migration /\ ini.pc # "idle" /\ pointer' # pointer) =>
             (ini.pc = "write_pointer" /\ LocalRemoved /\ RemoteComplete)]_vars
    /\ []((Migration /\ ini.pc = "write_pointer") => (LocalRemoved /\ RemoteComplete))
    /\ []((Migration /\ init_result.error = "write_failure") =>
             (LocalIntact /\ pointer = ini.before.pointer))
    /\ [](Migration => (LocalIntact \/ RemoteComplete))

\* between the two deletions: config.yaml is gone, dotfiles/ still there
C16_Witness ==
    /\ Migration
    /\ ini.pc = "delete_dotfiles"
    /\ ini.before.local = [config |-> "L", dotfiles |-> "L"]
    /\ local = [config |-> Absent, dotfiles |-> "L"]
    /\ ini.before.pointer = Absent

\* C17: when the copy succeeded and deleting a local original raises,
\* init_icloud returns cleanup_failure, not write_failure, the iCloud side
\* holds the complete data and the message says the data is safe in iCloud.
C17_CleanupFailure ==
    [][(/\ ICloudCall
        /\ ini.pc \in {"delete_config", "delete_dotfiles"}
        /\ ini'.pc = "idle") =>
          (/\ init_result'.error = "cleanup_failure"
           /\ init_result'.message = DataSafeMessage
           /\ init_result'.config_dir = ICloudDir
           /\ RemoteComplete')]_vars

\* config.yaml was deleted, then the removal of dotfiles/ failed partway
C17_Witness ==
    /\ ICloudCall
    /\ ini.pc = "idle"
    /\ init_result.error = "cleanup_failure"
    /\ local = [config |-> Absent, dotfiles |-> "partial"]
    /\ RemoteComplete

\* C18: init_icloud with force=true and a configuration on both sides
\* overwrites the remote one: afterwards the remote config.yaml and dotfiles
\* equal the former local ones, the local originals are removed and the
\* pointer is written.
C18_ForceOverwrites ==
    (/\ ICloudCall /\ ini.force /\ ini.has_local /\ ini.has_icloud
     /\ ini.before.local.config # Absent
     /\ ini.pc = "idle" /\ init_result.success) =>
        /\ icloud.config = ini.before.local.config
        /\ icloud.dotfiles = ini.before.local.dotfiles
        /\ LocalRemoved
        /\ pointer = ICloudDir

\* C19: without a local configuration init_icloud copies and deletes
\* nothing: it makes the remote directory and writes the pointer, reporting
\* migrated=false and files_moved=0, the remote content is unchanged and an
\* existing remote configuration is reported as found.
C19_NoLocal ==
    (ICloudCall /\ ~ini.has_local) =>
        /\ ini.pc \in {"idle", "write_pointer"}
        /\ LocalIntact
        /\ icloud.config = ini.before.icloud.config
        /\ icloud.dotfiles = ini.before.icloud.dotfiles
        /\ pointer # ini.before.pointer => init_result.success
        /\ init_result.success =>
              /\ pointer = ICloudDir
              /\ icloud.dir
              /\ init_result.migrated = FALSE
              /\ init_result.files_moved = 0
              /\ init_result.existing_config = ini.has_icloud

\* a new machine: the remote configuration was found and the pointer written
C19_Witness ==
    /\ ICloudCall /\ ~ini.has_local /\ ini.has_icloud
    /\ ini.pc = "idle"
    /\ init_result.success
    /\ init_result.existing_config
    /\ ini.before.pointer = Absent
    /\ pointer = ICloudDir

\* C20: init_local deletes the pointer file only when it returns success;
\* with an unreachable target it reports the remote as not accessible and
\* touches nothing, and when a copy raises it reports a copy failure and the
\* pointer still names the remote directory.
C20_PointerKept ==
    ini.op = "init_local" =>
        /\ pointer # ini.before.pointer => init_result.success
        /\ ~init_result.success => pointer = ini.before.pointer
        /\ (ini.before.pointer # Absent /\ ~ini.target_is_dir) =>
              (init_result.error = "icloud_not_accessible" /\ Snapshot = ini.before)
        /\ init_result.error = "copy_failure" =>
              (pointer = ICloudDir /\ ini.before.pointer = ICloudDir)

\* config.yaml was copied back, then the copy of dotfiles/ raised
C20_Witness ==
    /\ ini.op = "init_local"
    /\ init_result.error = "copy_failure"
    /\ local.config = "R"
    /\ ini.before.local.config = Absent
    /\ pointer = ICloudDir

\* ---------------------------------------------------------------------
\* init_local: what it leaves alone

LocalCall == ini.op = "init_local" /\ ini.pc = "idle"

RemoteFiles == [dir |-> icloud.dir, config |-> icloud.config, dotfiles |-> icloud.dotfiles]

RemoteBefore == ini.before.icloud

\* C21 as stated: after a successful init_local the local config.yaml and
\* dotfiles are equal to the remote ones.
C21_Original ==
    (LocalCall /\ init_result.success)
        => (local.config = icloud.config /\ local.dotfiles = icloud.dotfiles)

\* C21: whatever init_local returns, the remote directory holds what it held
\* before the call; on success every payload the remote directory has is
\* equal in the default directory, a local payload with no remote counterpart
\* is what it was before, and the pointer file is gone.
C21_RemoteUntouched ==
    LocalCall =>
        /\ RemoteFiles = RemoteBefore
        /\ init_result.success =>
              /\ pointer = Absent
              /\ ini.before.pointer # Absent
              /\ \A f \in {"config", "dotfiles"} :
                    /\ icloud[f] # Absent => local[f] = icloud[f]
                    /\ icloud[f] = Absent => local[f] = ini.before.local[f]

C21_Witness ==
    /\ LocalCall
    /\ init_result.success
    /\ icloud.config = "R"
    /\ ini.before.local.config = "L"
    /\ icloud.dotfiles = Absent
    /\ local.dotfiles = "L"

\* C22: status() reports "icloud" exactly when the pointer file exists, with
\* the pointer's target as the directory, and "local" with the default
\* directory otherwise; after a successful init_icloud the pointer holds the
\* remote directory and, with no environment override and iCloud Drive still
\* there, get_config_dir() resolves to it; after a successful init_local the
\* pointer is absent and, with no override, get_config_dir() resolves to the
\* default directory.
C22_PointerDecides ==
    /\ ini.op = "status" =>
          /\ (init_result.storage = "icloud") <=> (pointer # Absent)
          /\ (init_result.storage = "local") <=> (pointer = Absent)
          /\ init_result.config_dir = (IF pointer # Absent THEN pointer ELSE DefaultDir)
    /\ (ICloudCall /\ ini.pc = "idle" /\ init_result.success) =>
          /\ pointer = ICloudDir
          /\ (~Truthy(environ) /\ icloud.drive) =>
                GetConfigDir = [status |-> "ok", dir |-> ICloudDir]
    /\ (LocalCall /\ init_result.success) =>
          /\ pointer = Absent
          /\ ~Truthy(environ) => GetConfigDir = [status |-> "ok", dir |-> DefaultDir]

\* status() is asked while the pointer file exists and iCloud Drive is away
C22_Witness ==
    /\ ini.op = "status"
    /\ init_result.storage = "icloud"
    /\ pointer = ICloudDir
    /\ ~icloud.drive
    /\ ~Truthy(environ)

\* ---------------------------------------------------------------------
\* Profile resolution

\* a call of resolve_profile, preview or diff has returned or raised
Resolved == preview_out.status # "unset"

\* the named profile, or a profile reached from it by extends, is missing
RECURSIVE ChainBroken(_, _, _)
ChainBroken(cfg, name, hops) ==
    \/ name \notin DOMAIN cfg
    \/ /\ hops > 0
       /\ Truthy(cfg[name].extends)
       /\ ChainBroken(cfg, cfg[name].extends, hops - 1)

\* the named profile, or the profile its extends names, is missing
ParentMissing(cfg, name) ==
    \/ name \notin DOMAIN cfg
    \/ Truthy(cfg[name].extends) /\ cfg[name].extends \notin DOMAIN cfg

\* C23 as stated: the resolution fails whenever the named profile or any
\* profile reached by following extends is absent from the document.
C23_Original ==
    (Resolved /\ ChainBroken(config, preview_out.name, MaxHops))
        => preview_out.status = "ValueError"

\* C23: the resolution raises the not-found error exactly when the named
\* profile, or the profile its extends names, is absent from the document,
\* and then no profile is returned; the extends of the parent is not
\* followed.
C23_NotFound ==
    Resolved =>
        /\ (preview_out.status = "ValueError") <=> ParentMissing(config, preview_out.name)
        /\ preview_out.status = "ValueError" => "profile" \notin DOMAIN preview_out
        /\ preview_out.status = "ok" => "profile" \in DOMAIN preview_out

\* a profile whose parent is missing has been asked for
C23_Witness ==
    /\ preview_out.status = "ValueError"
    /\ preview_out.op = "resolve"
    /\ preview_out.name = "default"
    /\ config["default"].extends = "base"
    /\ "base" \notin DOMAIN config

\* the example: the child defines only formulas = ["node"], its parent has
\* formulas = ["git"] and casks = ["slack"], and the child has been resolved
NodeOverGit ==
    /\ preview_out.status = "ok"
    /\ preview_out.name = "default"
    /\ config["default"].extends = "base"
    /\ "base" \in DOMAIN config
    /\ ~config["default"].applications.is_none
    /\ config["default"].applications.formulas = <<"node">>
    /\ config["default"].applications.casks = <<>>
    /\ config["base"].applications.formulas = <<"git">>
    /\ config["base"].applications.casks = <<"slack">>

\* C24 as stated: the resolved profile has the child's formulas and the
\* parent's casks.
C24_Original ==
    NodeOverGit =>
        /\ preview_out.profile.applications.formulas = <<"node">>
        /\ preview_out.profile.applications.casks = <<"slack">>

\* C24: the resolved profile has the child's applications block as a whole:
\* formulas = ["node"] and the child's empty casks, nothing of the parent's
\* block.
C24_ChildBlockWins ==
    NodeOverGit =>
        /\ preview_out.profile.applications.formulas = <<"node">>
        /\ preview_out.profile.applications.casks = <<>>
        /\ preview_out.profile.applications = config["default"].applications

C24_Witness ==
    /\ NodeOverGit
    /\ preview_out.op = "resolve"
    /\ preview_out.profile.applications.casks = <<>>

\* a profile with an existing parent has been resolved
ChildResolved ==
    /\ preview_out.status = "ok"
    /\ Truthy(config[preview_out.name].extends)

\* C25: the resolved profile of a child with an existing parent has the
\* child's name, the child's description unless that is empty (then the
\* parent's), the child's dotfiles and preferences unless the list is empty
\* (then the parent's list as it is), and the child's applications block
\* unless it has none (then the parent's block); a profile without extends
\* is returned as it is stored.
C25_MergeRule ==
    /\ ChildResolved =>
          LET child == config[preview_out.name]
              parent == config[child.extends]
              r == preview_out.profile
          IN  /\ r.name = child.name
              /\ r.description = (IF child.description \in {None, ""}
                                  THEN parent.description ELSE child.description)
              /\ r.dotfiles = (IF Len(child.dotfiles) > 0
                               THEN child.dotfiles ELSE parent.dotfiles)
              /\ r.preferences = (IF Len(child.preferences) > 0
                                  THEN child.preferences ELSE parent.preferences)
              /\ r.applications = (IF child.applications.is_none
                                   THEN parent.applications ELSE child.applications)
    /\ (preview_out.status = "ok" /\ ~Truthy(config[preview_out.name].extends)) =>
          preview_out.profile = config[preview_out.name]

\* a child with a description and dotfiles of its own, no preferences and no
\* applications has been resolved against a parent that has all of them
C25_Witness ==
    /\ ChildResolved
    /\ preview_out.op = "resolve"
    /\ config[preview_out.name].description = "mine"
    /\ preview_out.profile.description = "mine"
    /\ preview_out.profile.dotfiles = <<".zshrc">>
    /\ preview_out.profile.preferences = <<"finder">>
    /\ config[preview_out.name].applications.is_none
    /\ preview_out.profile.applications.casks = <<"slack">>

\* C26: no call of resolve_profile, preview or diff changes the document:
\* every stored profile, the parent and the child with their fields and
\* lists, is after the call what it was before.
C26_DocumentUnchanged == [][config' = config]_vars

\* diff has merged a child with its parent, whose lists the result shares
C26_Witness ==
    /\ ChildResolved
    /\ preview_out.op = "diff"
    /\ config[preview_out.name].dotfiles = <<>>
    /\ preview_out.profile.dotfiles = <<".gitconfig">>
    /\ config["base"].dotfiles = <<".gitconfig">>
    /\ preview_out.installed["formula"] = <<"git">>

\* ---------------------------------------------------------------------
\* Skipping

\* C27: with or without force, no install/apply call is made for an item
\* whose identifier is in the completed_items loaded from a prior run.
C27_CompletedNeverCalled ==
    loaded # NoState =>
        \A m \in DOMAIN calls : IdAt(calls[m]) \notin LoadedCompleted

\* the loop is at an item that the claim calls skipped: its identifier is in
\* completed_items, or the adapter reports it installed while force is unset
AtSkippedItem ==
    /\ pc = "loop"
    /\ ~interrupted
    /\ \/ IsCompleted(CurId)
       \/ ~svc.force /\ IsInstalled(CurKind, CurId)

\* C28: the step the loop takes at such an item makes no install/apply call
\* and leaves completed_count, failed_count, completed_items and
\* failed_items as they are.
C28_SkipIsNoOp ==
    [][AtSkippedItem => (calls' = calls /\ result' = result /\ state' = state)]_vars

\* the category of kind is disabled by a skip flag of the command
SkipFlag(kind) ==
    \/ kind = "dotfile" /\ svc.skip_dotfiles
    \/ kind = "preference" /\ svc.skip_preferences

\* C29: when run() returns normally and not interrupted, every item of the
\* profile in a category that no skip flag disables has been executed
\* (recorded completed or failed) or skipped as completed or installed.
C29_NothingDropped ==
    (ReturnedNormally /\ ~result.interrupted) =>
        \A kind \in Kinds :
            ~SkipFlag(kind) =>
                \A i \in DOMAIN profile[kind] : <<CatIndex(kind), i>> \in Processed

\* ---------------------------------------------------------------------
\* Migration while iCloud Drive syncs.  The macsetup directory of iCloud
\* Drive is a synced folder (adapters/icloud.py: eviction and conflict
\* copies): the version of another machine may replace a file there at any
\* moment, also between the copy and the deletion of init_icloud.
ICloudSync(f) ==
    /\ icloud.drive
    /\ icloud.dir
    /\ icloud[f] \notin {Absent, "R"}
    /\ icloud' = [icloud EXCEPT ![f] = "R"]
    /\ UNCHANGED <<local, pointer, environ, main_out, ini, init_result,
                   setupVars, resolverVars>>

SyncedNext ==
    \/ StorageNext
    \/ \E f \in {"config", "dotfiles"} : ICloudSync(f)

SyncedSpec == StorageInit /\ [][SyncedNext]_vars

\* the remote directory holds, for every payload the default directory had
\* when init_icloud was called, the same content
RemoteVerified ==
    \A f \in {"config", "dotfiles"} :
        ini.before.local[f] # Absent => icloud[f] = ini.before.local[f]

\* C30: a step of init_icloud deletes a local file only if the remote
\* config.yaml and dotfiles hold the content of the local ones.
C30_VerifiedBeforeDelete ==
    [][(/\ ICloudCall
        /\ ini.pc \in {"delete_config", "delete_dotfiles"}
        /\ local' # local) => RemoteVerified]_vars

\* ---------------------------------------------------------------------
\* Retry after a pointer write failure

\* an init_icloud without force that follows a migration whose pointer write
\* failed has returned, and this time the pointer could be written
RetryReturned ==
    /\ ICloudCall
    /\ ini.pc = "idle"
    /\ ini.retry
    /\ ~ini.force
    /\ init_result.error # "pointer_write_failure"

\* C31: the init_icloud that is run again after a migration ended in
\* pointer_write_failure succeeds without force as soon as the pointer can
\* be written: it reports no conflict, the pointer holds the remote
\* directory, and the remote files are what the migration left there.
C31_RetrySucceeds ==
    RetryReturned =>
        /\ init_result.success
        /\ pointer = ICloudDir
        /\ RemoteFiles = ini.before.icloud
        /\ local = ini.before.local

C31_Witness ==
    /\ RetryReturned
    /\ init_result.success
    /\ init_result.existing_config
    /\ icloud.config = "L"
    /\ icloud.dotfiles = "L"
    /\ local = [config |-> Absent, dotfiles |-> Absent]

\* ---------------------------------------------------------------------
\* One hop of extends

\* the child of the chain default, base, root has been resolved
ChainResolved ==
    /\ preview_out.status = "ok"
    /\ preview_out.name = "default"
    /\ DOMAIN config = {"default", "base", "root"}
    /\ config["default"].extends = "base"
    /\ config["base"].extends = "root"

\* C32: the resolved child of a chain child, parent, grandparent is built
\* from the child and its direct parent: every field is the child's or,
\* where the child's is empty, the parent's, and no description, list or
\* applications block of the grandparent is in the result.
C32_OneHop ==
    ChainResolved =>
        LET child == config["default"]
            parent == config["base"]
            top == config["root"]
            r == preview_out.profile
        IN  /\ r.name = "default"
            /\ r.description \in {child.description, parent.description}
            /\ r.dotfiles \in {child.dotfiles, parent.dotfiles}
            /\ r.preferences \in {child.preferences, parent.preferences}
            /\ r.applications \in {child.applications, parent.applications}
            /\ r.description # top.description
            /\ r.dotfiles # top.dotfiles
            /\ r.preferences # top.preferences
            /\ r.applications # top.applications

\* neither the child nor its parent has dotfiles, preferences or
\* applications, the grandparent has all of them, and the resolved child
\* has none
C32_Witness ==
    /\ ChainResolved
    /\ preview_out.op = "resolve"
    /\ config["base"].dotfiles = <<>>
    /\ config["base"].applications.is_none
    /\ config["root"].dotfiles = <<".vimrc">>
    /\ preview_out.profile.dotfiles = <<>>
    /\ preview_out.profile.preferences = <<>>
    /\ preview_out.profile.applications.is_none

\* ---------------------------------------------------------------------
\* Cycles of extends

\* the profile name extends itself, or extends a profile that extends name
InCycle(cfg, name) ==
    /\ name \in DOMAIN cfg
    /\ Truthy(cfg[name].extends)
    /\ cfg[name].extends \in DOMAIN cfg
    /\ \/ cfg[name].extends = name
       \/ cfg[cfg[name].extends].extends = name

\* C39: whenever the named profile and its direct parent exist, the
\* resolution returns a profile, also when the profile extends itself or
\* two profiles extend each other: the result is then the merge of the
\* profile with that one parent.
C39_CyclesReturn ==
    (Resolved /\ ~ParentMissing(config, preview_out.name)) =>
        /\ preview_out.status = "ok"
        /\ "profile" \in DOMAIN preview_out
        /\ InCycle(config, preview_out.name) =>
              /\ preview_out.profile.name = preview_out.name
              /\ preview_out.profile.extends = None

\* two profiles extend each other and one of them has been resolved
C39_Witness ==
    /\ preview_out.status = "ok"
    /\ preview_out.op = "resolve"
    /\ preview_out.name = "default"
    /\ InCycle(config, "default")
    /\ config["default"].extends = "base"
    /\ config["base"].extends = "default"

\* ---------------------------------------------------------------------
\* Counts and records of a run

\* the number of identifiers this run appended to completed_items
AppendedCompleted ==
    Len(state.completed_items)
        - (IF loaded = NoState THEN 0 ELSE Len(loaded.completed_items))

\* C33: in every result run() returns, failed_count is the number of
\* entries of the result's failed_items and completed_count is the number
\* of identifiers the run appended to completed_items.
C33_CountsMatchLists ==
    RunReturned =>
        /\ result.failed_count = Len(result.failed_items)
        /\ result.completed_count = AppendedCompleted

\* the work items of a list of failure records
FailedIds(items) ==
    {ItemId(f.type, f.identifier) : f \in {g \in Range(items) : g.type \in Kinds}}

\* no work item of st is completed and failed at once, or failed twice
OneRecord(st) ==
    /\ FailedIds(st.failed_items) \cap Range(st.completed_items) = {}
    /\ \A i, j \in DOMAIN st.failed_items :
          (/\ st.failed_items[i].type \in Kinds
           /\ st.failed_items[i].type = st.failed_items[j].type
           /\ st.failed_items[i].identifier = st.failed_items[j].identifier) => i = j

\* C34: the persisted run state and the returned result hold at most one
\* record per work item: never completed and failed at once, never failed
\* twice.
C34_OneRecordPerItem ==
    /\ file # NoState => OneRecord(file)
    /\ RunReturned => OneRecord(result)

IsPrefix(a, b) == Len(a) <= Len(b) /\ SubSeq(b, 1, Len(a)) = a

\* C35: completed_items only grows.  A step of a run keeps every identifier
\* of the run state, in order; a run that resumes starts from all the
\* identifiers of the file; a state written to the file holds all the
\* identifiers of the run, the loaded ones included; and the file is removed
\* only by the end of a run that was not interrupted and counted no
\* failure.
C35_CompletedOnlyGrows ==
    [][/\ pc # "idle" => IsPrefix(state.completed_items, state'.completed_items)
       /\ (pc = "idle" /\ loaded' # NoState /\ state' # state) =>
             /\ file # NoState
             /\ state'.completed_items = file.completed_items
       /\ (file' # file /\ file' # NoState) =>
             /\ IsPrefix(state.completed_items, file'.completed_items)
             /\ loaded # NoState =>
                   IsPrefix(loaded.completed_items, file'.completed_items)
       /\ (file' # file /\ file' = NoState) =>
             /\ pc = "final"
             /\ ~interrupted
             /\ result.failed_count = 0]_vars

\* a resumed run has saved a state that holds the identifier it loaded and
\* one more
C35_Witness ==
    /\ RunReturned
    /\ loaded # NoState
    /\ Len(loaded.completed_items) >= 1
    /\ file # NoState
    /\ Len(file.completed_items) > Len(loaded.completed_items)
    /\ IsPrefix(loaded.completed_items, file.completed_items)

\* ---------------------------------------------------------------------
\* Sessions over two profiles of one configuration.  Both profiles set the
\* preference 1 (the same domain and key); "work" has a second preference
\* and a formula, "default" a dotfile.
ProfileOf(name) ==
    [k \in ProfileKeys |->
        IF name = "default"
        THEN (IF k \in {"preference", "dotfile"} THEN KeyList(1) ELSE <<>>)
        ELSE (IF k = "preference" THEN KeyList(2)
              ELSE IF k = "formula" THEN KeyList(1) ELSE <<>>)]

SwitchInit ==
    /\ todo = MaxRuns
    /\ env = PlainEnv
    /\ profile = ProfileOf(env.profile)
    /\ installed \in SUBSET BrewMasIds(ProfileOf("work"))
    /\ file = NoState
    /\ pc = "idle"
    /\ svc = [force |-> FALSE, skip_dotfiles |-> FALSE, skip_preferences |-> FALSE,
              brew |-> TRUE, mas |-> TRUE, profile_name |-> "default"]
    /\ interrupted = FALSE
    /\ state = NoState
    /\ loaded = NoState
    /\ result = NewResult
    /\ pos = EndPos
    /\ calls = <<>>
    /\ skipped = {}
    /\ last_call = NoCall
    /\ exit_code = NoExit
    /\ prev = [clean |-> FALSE, force |-> FALSE]
    /\ ResolverIdle
    /\ StorageIdle

\* the next invocation names the other profile (--profile, cmd_setup)
SwitchProfile ==
    /\ pc = "idle"
    /\ todo > 0
    /\ \E name \in {"default", "work"} :
          /\ name # env.profile
          /\ env' = [env EXCEPT !.profile = name]
          /\ profile' = ProfileOf(name)
    /\ UNCHANGED <<installed, file, todo, pc, svc, interrupted, state, loaded, result,
                   pos, calls, skipped, last_call, exit_code, prev, outsideSetup>>

SwitchNext ==
    \/ Next
    \/ SwitchProfile

SwitchSpec == SwitchInit /\ [][SwitchNext]_vars

\* C36: in a resumed run of a profile other than the one the loaded state
\* was recorded for, no item is skipped because of the loaded
\* completed_items: an item that was skipped is not in that list, or is one
\* the adapter reports as installed.
C36_SameProfileOnly ==
    (loaded # NoState /\ loaded.profile # svc.profile_name) =>
        \A p \in skipped :
            \/ IdAt(p) \notin LoadedCompleted
            \/ IsInstalled(KindAt(p), IdAt(p))

\* ---------------------------------------------------------------------
\* What init_icloud does to files that are already there

\* C37: an init_icloud without force leaves every file that the remote
\* directory held when it was called (config.yaml, dotfiles/) as it was.
C37_RemoteFilesKept ==
    (ICloudCall /\ ~ini.force) =>
        \A f \in {"config", "dotfiles"} :
            ini.before.icloud[f] # Absent => icloud[f] = ini.before.icloud[f]

\* the directory get_config_dir() resolves to without overrides holds a
\* config.yaml with content c
Reachable(c) ==
    IF pointer # Absent
    THEN IsDir(pointer) /\ icloud.config = c
    ELSE local.config = c

\* C38: after init_icloud has returned, with whatever outcome, a document
\* that existed locally before the call (and was then the one of the
\* default directory, no pointer file being there) is the config.yaml of
\* the directory that get_config_dir() resolves to without overrides.
C38_DocumentReachable ==
    (/\ ICloudCall
     /\ ini.pc = "idle"
     /\ ini.before.local.config # Absent
     /\ ini.before.pointer = Absent
     /\ icloud.drive)
        => Reachable(ini.before.local.config)

\* The loops of run() make progress and every adapter call returns.
FairSpec ==
    /\ FairInit
    /\ [][Next]_vars
    /\ WF_vars(LoopHead)
    /\ WF_vars(ReturnOk \/ (\E e \in AdapterErrors : ReturnFail(e)) \/ ReturnRaise)
    /\ WF_vars(Finish)
====
